---- MODULE Spec2Model ----
(***************************************************************************)
(* The stream-capability protocol of src/src/traits.rs: the IntStream      *)
(* trait (next, default method next_nat), its implementers Count and       *)
(* Constant, the blanket extension EvenStream (next_even), the clamp       *)
(* capability BoundedIntStream (bounded_next, MAX) and the associated-type *)
(* trait Stream implemented for Vec<T> (next = pop).                       *)
(*                                                                         *)
(* A behaviour is one caller holding the exclusive handle of one producer  *)
(* and calling operations on it, one call per step.  Every call is logged  *)
(* with the producer state before and after it, the base results it saw    *)
(* and what it returned.  Further specifications let the caller read two   *)
(* elements at a time (read_two, two_ints: SpecRead), hold several         *)
(* producers at once (SpecTwo), or hold two producers made alike           *)
(* (SpecSame).                                                             *)
(***************************************************************************)
EXTENDS Integers, Sequences, FiniteSets

VARIABLES
    overflow_checks,  \* build profile: TRUE = arithmetic overflow panics
    live,             \* which producer the caller constructed
    count,            \* Count.0, the cursor of the counting producer
    constant,         \* Constant.0
    list,             \* the Vec<i32> backing sequence
    other,            \* the cursor of a second Count, when the caller holds two
    pc,               \* "ready", "panicked" (unwinding) or "hung" (a call never returns)
    log               \* one record per call made so far

vars == <<overflow_checks, live, count, constant, list, other, pc, log>>

----------------------------------------------------------------------------
(* Bounds of the model *)

MaxOps == 5       \* calls per behaviour
MaxStart == 5     \* Count starts range over -MaxStart..MaxStart (and the i32 top)
MaxConst == 2     \* Constant values range over -MaxConst..MaxConst
MaxLen == 3       \* length of the initial backing sequence
MaxElem == 3      \* backing sequence elements range over 0..MaxElem
MaxLoop == 8      \* iterations of a filter loop that one call is followed through
MaxPairOps == 3   \* calls per behaviour of a caller holding several producers
MaxPairStart == 1 \* their Count starts range over -MaxPairStart..MaxPairStart (and the i32 top)
MaxSameOps == 4   \* calls per behaviour of a caller holding two producers made alike

----------------------------------------------------------------------------
(* i32 and u32 *)

MaxI32 == 2147483647
MinI32 == -MaxI32 - 1

\* Option<T>: None is the empty tuple, Some(x) the one-element tuple.
None == <<>>
Some(x) == <<x>>

\* Rust's % on i32 truncates toward zero: the result has the sign of the dividend.
RustRem(a, b) ==
    LET m == a % b IN
    IF a >= 0 \/ m = 0 THEN m ELSE m - b

\* `i as u32` losing the upper half of the value (a detour through u16).
AsU32_narrow(i) == [hi |-> 0, lo |-> i % 65536]

\* `i as u32`: reinterpretation modulo 2^32.  A u32 is kept as its top bit and
\* its low 31 bits, value = hi * 2^31 + lo.
AsU32(i) ==
    IF i >= 0 THEN [hi |-> 0, lo |-> i]
    ELSE [hi |-> 1, lo |-> (i + MaxI32) + 1]

----------------------------------------------------------------------------
(* The call log: one record per call, holding the operation, the producer   *)
(* it was called on, the producer state before and after, the result, the   *)
(* number of base calls made and the base results seen.                     *)

Calls == 1 .. Len(log)

\* C14 as stated: no operation advances the cursor twice within one call: a
\* call makes at most one base call, and leaves a Count cursor at most one
\* step further.
C14_AtMostOneAdvance ==
    \A i \in Calls :
        /\ log[i].calls <= 1
        /\ (live = "Count" /\ log[i].pre < MaxI32 - MaxLoop)
               => log[i].post <= log[i].pre + 1

\* C22 as stated: on a Count whose cursor c is non-negative, next returns
\* Some(c), and next_nat returns the element next would return and leaves the
\* cursor one further, so that a next_nat directly after a next on cursor c
\* returns Some(c + 1).
C22_NextThenNextNat ==
    \A i \in Calls :
        LET e == log[i] IN
        (live = "Count" /\ e.pre >= 0)
            => /\ e.op = "next"
                      => e.outcome = "returned" /\ e.ret = Some(e.pre)
               /\ e.op = "next_nat"
                      => /\ e.outcome = "returned"
                         /\ e.ret = Some([hi |-> 0, lo |-> e.pre])
                         /\ e.calls = 1
                         /\ e.pre < MaxI32
                         /\ e.post = e.pre + 1
               /\ (e.op = "next_nat" /\ i > 1 /\ log[i - 1].op = "next"
                      /\ log[i - 1].pre >= 0)
                      => e.ret = Some([hi |-> 0, lo |-> log[i - 1].pre + 1])

\* C23 as stated: read_two on a Count with cursor c returns the pair
\* (Some(c), Some(c + 1)), the first field from the first base call and the
\* second from the second, and leaves the cursor at c + 2.
C23_ReadTwoPair ==
    \A i \in Calls :
        LET e == log[i] IN
        (live = "Count" /\ e.op = "read_two")
            => /\ e.outcome = "returned"
               /\ e.calls = 2
               /\ e.pre < MaxI32 - 1
               /\ e.ret = <<<<e.pre>>, <<e.pre + 1>>>>
               /\ e.seen = e.ret
               /\ e.post = e.pre + 2

----------------------------------------------------------------------------
(* The base operation of each producer.  Each returns the Option it yields, *)
(* the producer state it leaves and whether it returned or panicked.        *)

\* Count::advance_value: let value = self.0; self.0 += 1; value
\* `+= 1` on i32::MAX panics in a build with overflow checks (the dev and test
\* profiles) and wraps to i32::MIN in a build without them (the release profile).
advance_value_in(checks, c) ==
    IF c = MaxI32
    THEN IF checks
         THEN [value |-> c, st |-> c, outcome |-> "panicked"]
         ELSE [value |-> c, st |-> MinI32, outcome |-> "returned"]
    ELSE [value |-> c, st |-> c + 1, outcome |-> "returned"]

\* advance_value stepping the cursor by two.
advance_value_by_two(c) ==
    [value |-> c, st |-> IF c >= MaxI32 - 1 THEN MinI32 ELSE c + 2,
     outcome |-> "returned"]

\* advance_value returning the cursor after the increment, not before it.
advance_value_post(c) ==
    LET a == advance_value_in(overflow_checks, c) IN
    [a EXCEPT !.value = a.st]

\* advance_value without its increment: the value is returned and the cursor stays.
advance_value_stuck(c) ==
    [value |-> c, st |-> c, outcome |-> "returned"]

\* advance_value in the build at hand.
advance_value(c) == advance_value_in(overflow_checks, c)

\* impl IntStream for Count: Some(self.advance_value())
Count_next(c) ==
    LET a == advance_value(c) IN
    [ret |-> IF a.outcome = "returned" THEN Some(a.value) ELSE None,
     st |-> a.st, outcome |-> a.outcome]

\* impl IntStream for Constant: Some(self.0)
Constant_next(v) ==
    [ret |-> Some(v), st |-> v, outcome |-> "returned"]

\* pop with a zero element mistaken for absence (a truthiness test on the value).
pop_zero_as_none(v) ==
    IF Len(v) = 0
    THEN [ret |-> None, st |-> v, outcome |-> "returned"]
    ELSE [ret |-> IF v[Len(v)] = 0 THEN None ELSE Some(v[Len(v)]),
          st |-> SubSeq(v, 1, Len(v) - 1), outcome |-> "returned"]

\* pop taking from the front of the sequence instead of the back.
pop_front(v) ==
    IF Len(v) = 0
    THEN [ret |-> None, st |-> v, outcome |-> "returned"]
    ELSE [ret |-> Some(v[1]), st |-> SubSeq(v, 2, Len(v)), outcome |-> "returned"]

\* pop that reads the last element and leaves it in place (last() for pop()).
pop_peek(v) ==
    IF Len(v) = 0
    THEN [ret |-> None, st |-> v, outcome |-> "returned"]
    ELSE [ret |-> Some(v[Len(v)]), st |-> v, outcome |-> "returned"]

\* pop giving up one element early: a sequence of length 1 already yields None.
pop_keep_last(v) ==
    IF Len(v) <= 1
    THEN [ret |-> None, st |-> v, outcome |-> "returned"]
    ELSE [ret |-> Some(v[Len(v)]), st |-> SubSeq(v, 1, Len(v) - 1),
          outcome |-> "returned"]

\* Vec::pop: removes the last element and returns it, or None if it is empty.
pop(v) ==
    IF Len(v) = 0
    THEN [ret |-> None, st |-> v, outcome |-> "returned"]
    ELSE [ret |-> Some(v[Len(v)]), st |-> SubSeq(v, 1, Len(v) - 1),
          outcome |-> "returned"]

\* impl<T> Stream for Vec<T>: self.pop()
Vec_next(v) == pop(v)

IntStreams == {"Count", "Constant"}

\* Dynamic dispatch of IntStream::next on the implementing type.
IntStream_next(T, st) ==
    IF T = "Count" THEN Count_next(st) ELSE Constant_next(st)

\* A single base call seen as a call record.
Base(r) ==
    [ret |-> r.ret, st |-> r.st, calls |-> 1,
     seen |-> IF r.outcome = "returned" THEN <<r.ret>> ELSE <<>>,
     outcome |-> r.outcome]

----------------------------------------------------------------------------
(* The derived operations.  Each returns what Base returns: the Option it   *)
(* yields, the producer state it leaves, the number of base calls it made,  *)
(* the base results it saw, and whether it returned, panicked in a base     *)
(* call, never returns ("hung"), or ran past MaxLoop ("unfinished").        *)

\* next_nat without its sign test: every element is converted and returned.
IsNat_unchecked(i) == TRUE

\* next_nat testing i > 0 for i >= 0.
IsNat_strict(i) == i > 0

\* next_nat running its elements through the evenness filter as well.
IsNat_and_even(i) == i >= 0 /\ RustRem(i, 2) = 0

\* The test of next_nat: i >= 0
IsNat(i) == i >= 0

\* IntStream::next_nat: while let Some(i) = self.next() { if i >= 0 { return Some(i as u32) } } None
\* A discarded element that leaves the producer state as it was makes every
\* later iteration the same: the loop never ends.
RECURSIVE next_nat_loop(_, _, _, _)
next_nat_loop(T, st, seen, fuel) ==
    LET r == IntStream_next(T, st)
        now == Append(seen, r.ret)
    IN
    IF fuel = 0
    THEN [ret |-> None, st |-> st, calls |-> Len(seen), seen |-> seen,
          outcome |-> "unfinished"]
    ELSE IF r.outcome = "panicked"
    THEN [ret |-> None, st |-> r.st, calls |-> Len(seen) + 1, seen |-> seen,
          outcome |-> "panicked"]
    ELSE IF r.ret = None
    THEN [ret |-> None, st |-> r.st, calls |-> Len(now), seen |-> now,
          outcome |-> "returned"]
    ELSE IF IsNat(r.ret[1])
    THEN [ret |-> Some(AsU32(r.ret[1])), st |-> r.st, calls |-> Len(now),
          seen |-> now, outcome |-> "returned"]
    ELSE IF r.st = st
    THEN [ret |-> None, st |-> r.st, calls |-> Len(now), seen |-> now,
          outcome |-> "hung"]
    ELSE next_nat_loop(T, r.st, now, fuel - 1)

next_nat(T, st) == next_nat_loop(T, st, <<>>, MaxLoop)

\* next_even testing "not odd" as i % 2 != 1, which a negative odd i passes.
IsEven_not_one(i) == RustRem(i, 2) # 1

\* next_even with the test inverted.
IsEven_inverted(i) == RustRem(i, 2) # 0

\* next_even also discarding negative elements (the sign test of next_nat copied in).
IsEven_and_nat(i) == i >= 0 /\ RustRem(i, 2) = 0

\* The test of next_even: i % 2 == 0
IsEven(i) == RustRem(i, 2) = 0

\* EvenStream::next_even: while let Some(i) = self.next() { if i % 2 == 0 { return Some(i) } } None
RECURSIVE next_even_loop(_, _, _, _)
next_even_loop(T, st, seen, fuel) ==
    LET r == IntStream_next(T, st)
        now == Append(seen, r.ret)
    IN
    IF fuel = 0
    THEN [ret |-> None, st |-> st, calls |-> Len(seen), seen |-> seen,
          outcome |-> "unfinished"]
    ELSE IF r.outcome = "panicked"
    THEN [ret |-> None, st |-> r.st, calls |-> Len(seen) + 1, seen |-> seen,
          outcome |-> "panicked"]
    ELSE IF r.ret = None
    THEN [ret |-> None, st |-> r.st, calls |-> Len(now), seen |-> now,
          outcome |-> "returned"]
    ELSE IF IsEven(r.ret[1])
    THEN [ret |-> Some(r.ret[1]), st |-> r.st, calls |-> Len(now),
          seen |-> now, outcome |-> "returned"]
    ELSE IF r.st = st
    THEN [ret |-> None, st |-> r.st, calls |-> Len(now), seen |-> now,
          outcome |-> "hung"]
    ELSE next_even_loop(T, r.st, now, fuel - 1)

next_even(T, st) == next_even_loop(T, st, <<>>, MaxLoop)

\* impl BoundedIntStream for Count: const MAX: i32 = 5
MAX == 5

\* max for min.
Min_as_max(a, b) == IF a >= b THEN a ELSE b

\* min that keeps its receiver: no clamping.
Min_first(a, b) == a

\* i32::min
Min(a, b) == IF a <= b THEN a ELSE b

\* bounded_next as a filter: a value above MAX is dropped, not clamped.
bounded_next_filter(c) ==
    LET r == Count_next(c) IN
    IF r.outcome = "panicked" \/ r.ret = None
    THEN Base(r)
    ELSE [ret |-> IF r.ret[1] > MAX THEN None ELSE r.ret, st |-> r.st, calls |-> 1,
          seen |-> <<r.ret>>, outcome |-> "returned"]

\* bounded_next reading the cursor itself (self.0.min(MAX)) with no base call.
bounded_next_peek(c) ==
    [ret |-> Some(Min(c, MAX)), st |-> c, calls |-> 0, seen |-> <<>>,
     outcome |-> "returned"]

\* BoundedIntStream::bounded_next: let next = self.next()?; Some(next.min(Self::MAX))
bounded_next(c) ==
    LET r == Count_next(c) IN
    IF r.outcome = "panicked" \/ r.ret = None
    THEN Base(r)
    ELSE [ret |-> Some(Min(r.ret[1], MAX)), st |-> r.st, calls |-> 1,
          seen |-> <<r.ret>>, outcome |-> "returned"]

----------------------------------------------------------------------------
(* The consumer functions.  A tuple expression evaluates its fields left to  *)
(* right, so the first field is the result of the first base call.  `ret`    *)
(* is the pair of the two Options.                                          *)

\* fn read_two(stream: &mut impl IntStream): (stream.next(), stream.next())
read_two(T, st) ==
    LET a == IntStream_next(T, st)
        b == IntStream_next(T, a.st)
    IN
    IF a.outcome = "panicked"
    THEN [ret |-> None, st |-> a.st, calls |-> 1, seen |-> <<>>,
          outcome |-> "panicked"]
    ELSE IF b.outcome = "panicked"
    THEN [ret |-> None, st |-> b.st, calls |-> 2, seen |-> <<a.ret>>,
          outcome |-> "panicked"]
    ELSE [ret |-> <<a.ret, b.ret>>, st |-> b.st, calls |-> 2,
          seen |-> <<a.ret, b.ret>>, outcome |-> "returned"]

\* two_ints with its pair built right to left: the second field is popped first.
two_ints_swapped(v) ==
    LET a == Vec_next(v)
        b == Vec_next(a.st)
    IN
    [ret |-> <<b.ret, a.ret>>, st |-> b.st, calls |-> 2,
     seen |-> <<a.ret, b.ret>>, outcome |-> "returned"]

\* fn two_ints(stream: &mut impl Stream<Output = i32>): (stream.next(), stream.next())
two_ints(v) ==
    LET a == Vec_next(v)
        b == Vec_next(a.st)
    IN
    [ret |-> <<a.ret, b.ret>>, st |-> b.st, calls |-> 2,
     seen |-> <<a.ret, b.ret>>, outcome |-> "returned"]

----------------------------------------------------------------------------
(* State, initial states *)

CountStarts == (-MaxStart .. MaxStart) \cup {MaxI32 - 1, MaxI32}
ConstantValues == -MaxConst .. MaxConst
Elems == 0 .. MaxElem
Lists == UNION {[1..n -> Elems] : n \in 0..MaxLen}

Init ==
    /\ overflow_checks \in BOOLEAN
    /\ live \in {"Count", "Constant", "Vec"}
    /\ count \in (IF live = "Count" THEN CountStarts ELSE {0})
    /\ constant \in (IF live = "Constant" THEN ConstantValues ELSE {0})
    /\ list \in (IF live = "Vec" THEN Lists ELSE {<<>>})
    /\ other = 0
    /\ pc = "ready"
    /\ log = <<>>

\* The state of the producer the caller holds.
State == IF live = "Count" THEN count ELSE IF live = "Constant" THEN constant ELSE list

\* One call completes (or panics, or hangs): the producer takes the state the
\* call left and the call is logged.
Finish(op, r) ==
    /\ count' = IF live = "Count" THEN r.st ELSE count
    /\ constant' = IF live = "Constant" THEN r.st ELSE constant
    /\ list' = IF live = "Vec" THEN r.st ELSE list
    /\ pc' = IF r.outcome = "returned" THEN "ready" ELSE r.outcome
    /\ log' = Append(log, [op |-> op, on |-> live, pre |-> State, post |-> r.st,
                           ret |-> r.ret, calls |-> r.calls, seen |-> r.seen,
                           outcome |-> r.outcome])
    /\ UNCHANGED <<overflow_checks, live, other>>

CanCall == pc = "ready" /\ Len(log) < MaxOps

\* count.next() resolved to the clamping method: the BoundedIntStream impl
\* taking over the base operation of Count.
CallNext_bounded ==
    /\ CanCall
    /\ live \in IntStreams
    /\ Finish("next", IF live = "Count" THEN bounded_next(count)
                      ELSE Base(IntStream_next(live, State)))

\* count.next() / constant.next()
CallNext ==
    /\ CanCall
    /\ live \in IntStreams
    /\ Finish("next", Base(IntStream_next(live, State)))

\* list.next()
CallVecNext ==
    /\ CanCall
    /\ live = "Vec"
    /\ Finish("Vec.next", Base(Vec_next(list)))

\* stream.next_nat(): the default method, on either implementer
CallNextNat ==
    /\ CanCall
    /\ live \in IntStreams
    /\ next_nat(live, State).outcome # "unfinished"
    /\ Finish("next_nat", next_nat(live, State))

\* stream.next_even(): the blanket implementation covers every IntStream
CallNextEven ==
    /\ CanCall
    /\ live \in IntStreams
    /\ next_even(live, State).outcome # "unfinished"
    /\ Finish("next_even", next_even(live, State))

\* count.bounded_next(): BoundedIntStream is implemented for Count alone
CallBoundedNext ==
    /\ CanCall
    /\ live = "Count"
    /\ Finish("bounded_next", bounded_next(count))

Next ==
    \/ CallNext
    \/ CallNextNat
    \/ CallNextEven
    \/ CallBoundedNext
    \/ CallVecNext

Spec == Init /\ [][Next]_vars

----------------------------------------------------------------------------
(* A caller that also reads two elements at a time, through read_two on an  *)
(* IntStream and two_ints on the Vec.                                        *)

\* read_two(&mut count) / read_two(&mut constant)
CallReadTwo ==
    /\ CanCall
    /\ live \in IntStreams
    /\ Finish("read_two", read_two(live, State))

\* two_ints(&mut list)
CallTwoInts ==
    /\ CanCall
    /\ live = "Vec"
    /\ Finish("two_ints", two_ints(list))

NextRead ==
    \/ Next
    \/ CallReadTwo
    \/ CallTwoInts

SpecRead == Init /\ [][NextRead]_vars

----------------------------------------------------------------------------
(* A caller holding several producers at once: the Count `count`, a second  *)
(* Count `other` and the Vec `list`, calling them in any order.             *)

PairStarts == (-MaxPairStart .. MaxPairStart) \cup {MaxI32}

InitTwo ==
    /\ overflow_checks \in BOOLEAN
    /\ live = "Count"
    /\ count \in PairStarts
    /\ other \in PairStarts
    /\ constant = 0
    /\ list = <<1, 2, 3>>
    /\ pc = "ready"
    /\ log = <<>>

\* A call on `other` or on `list` through its own &mut self, with one cursor
\* behind every Count (a static in place of the field).
FinishOn_shared(h, op, r) ==
    /\ other' = IF h = "Other" THEN r.st ELSE other
    /\ count' = IF h = "Other" THEN r.st ELSE count
    /\ list' = IF h = "Vec" THEN r.st ELSE list
    /\ pc' = IF r.outcome = "returned" THEN "ready" ELSE r.outcome
    /\ log' = Append(log, [op |-> op, on |-> h,
                           pre |-> IF h = "Other" THEN other ELSE list,
                           post |-> r.st, ret |-> r.ret, calls |-> r.calls,
                           seen |-> r.seen, outcome |-> r.outcome])
    /\ UNCHANGED <<overflow_checks, live, constant>>

\* A call on `other` or on `list` completes: &mut self is that producer, and
\* the call writes to it alone.
FinishOn(h, op, r) ==
    /\ other' = IF h = "Other" THEN r.st ELSE other
    /\ list' = IF h = "Vec" THEN r.st ELSE list
    /\ pc' = IF r.outcome = "returned" THEN "ready" ELSE r.outcome
    /\ log' = Append(log, [op |-> op, on |-> h,
                           pre |-> IF h = "Other" THEN other ELSE list,
                           post |-> r.st, ret |-> r.ret, calls |-> r.calls,
                           seen |-> r.seen, outcome |-> r.outcome])
    /\ UNCHANGED <<overflow_checks, live, count, constant>>

CanCallTwo == pc = "ready" /\ Len(log) < MaxPairOps

\* other.next() reaching the cursor of the first Count (both handles made
\* from one &mut), not its own.
CallOtherNext_aliased ==
    /\ CanCallTwo
    /\ FinishOn("Other", "next", Base(Count_next(count)))

\* other.next()
CallOtherNext ==
    /\ CanCallTwo
    /\ FinishOn("Other", "next", Base(Count_next(other)))

\* other.next_nat()
CallOtherNextNat ==
    /\ CanCallTwo
    /\ next_nat("Count", other).outcome # "unfinished"
    /\ FinishOn("Other", "next_nat", next_nat("Count", other))

\* other.next_even()
CallOtherNextEven ==
    /\ CanCallTwo
    /\ next_even("Count", other).outcome # "unfinished"
    /\ FinishOn("Other", "next_even", next_even("Count", other))

\* other.bounded_next()
CallOtherBoundedNext ==
    /\ CanCallTwo
    /\ FinishOn("Other", "bounded_next", bounded_next(other))

\* list.next(), beside the two Counts
CallListNext ==
    /\ CanCallTwo
    /\ FinishOn("Vec", "Vec.next", Base(Vec_next(list)))

NextTwo ==
    \/ CanCallTwo /\ CallNext
    \/ CanCallTwo /\ CallNextNat
    \/ CanCallTwo /\ CallNextEven
    \/ CanCallTwo /\ CallBoundedNext
    \/ CallOtherNext
    \/ CallOtherNextNat
    \/ CallOtherNextEven
    \/ CallOtherBoundedNext
    \/ CallListNext

SpecTwo == InitTwo /\ [][NextTwo]_vars

----------------------------------------------------------------------------
(* A caller holding two producers of one type, constructed from the same    *)
(* initial state: two Counts with one start value, or two Vecs with the     *)
(* same contents (`other` is the second of them), called in any order.      *)

InitSame ==
    /\ overflow_checks \in BOOLEAN
    /\ live \in {"Count", "Vec"}
    /\ count \in (IF live = "Count" THEN PairStarts ELSE {0})
    /\ constant = 0
    /\ list \in (IF live = "Vec" THEN Lists ELSE {<<>>})
    /\ other = State
    /\ pc = "ready"
    /\ log = <<>>

CanCallSame == pc = "ready" /\ Len(log) < MaxSameOps

\* other.next(), `other` being the second Vec
CallOtherVecNext ==
    /\ CanCallTwo
    /\ live = "Vec"
    /\ FinishOn("Other", "Vec.next", Base(Vec_next(other)))

NextSame ==
    \/ CanCallSame /\ CallNext
    \/ CanCallSame /\ CallNextNat
    \/ CanCallSame /\ CallNextEven
    \/ CanCallSame /\ CallBoundedNext
    \/ CanCallSame /\ CallVecNext
    \/ CanCallSame /\ live = "Count" /\ CallOtherNext
    \/ CanCallSame /\ live = "Count" /\ CallOtherNextNat
    \/ CanCallSame /\ live = "Count" /\ CallOtherNextEven
    \/ CanCallSame /\ live = "Count" /\ CallOtherBoundedNext
    \/ CanCallSame /\ CallOtherVecNext

SpecSame == InitSame /\ [][NextSame]_vars

----------------------------------------------------------------------------
(* Properties *)

\* The first n calls of the behaviour were all `op`.
FirstCalls(n, op) == Len(log) >= n /\ \A i \in 1..n : log[i].op = op

\* C1: exhaustion of the Vec-backed producer is monotonic: once a call of next
\* has returned None, every later call returns None as well, and finds and
\* leaves the backing sequence empty (nothing moves it back to Active).
C1_ExhaustionMonotonic ==
    \A i, j \in Calls :
        (i < j /\ log[i].op = "Vec.next" /\ log[i].ret = None)
            => /\ log[j].ret = None
               /\ log[j].pre = <<>>
               /\ log[j].post = <<>>

\* A non-empty sequence was drained, and two further calls were made.
C1_Witness ==
    /\ live = "Vec"
    /\ Len(log) >= 3
    /\ log[1].ret # None
    /\ log[Len(log) - 1].ret = None
    /\ log[Len(log)].ret = None

\* C2: a present result of next_nat is never negative: it is the u32 image of
\* a non-negative element (top bit clear), and the element it was made from,
\* the last one the call read, is >= 0.
C2_NextNatNonNegative ==
    \A i \in Calls :
        (log[i].op = "next_nat" /\ log[i].outcome = "returned" /\ log[i].ret # None)
            => /\ log[i].ret[1].hi = 0
               /\ log[i].ret[1].lo >= 0
               /\ log[i].seen[Len(log[i].seen)][1] >= 0

\* next_nat returned a value after reading negative elements.
C2_Witness ==
    \E i \in Calls :
        /\ log[i].op = "next_nat"
        /\ log[i].pre < 0
        /\ log[i].ret # None

\* C3: on Count(-5) the first next_nat call returns 0; -5 .. -1 are consumed
\* and discarded inside that one call.
C3_CountFromNeg ==
    (live = "Count" /\ FirstCalls(1, "next_nat") /\ log[1].pre = -5)
        => /\ log[1].outcome = "returned"
           /\ log[1].ret = Some(AsU32(0))
           /\ log[1].ret[1] = [hi |-> 0, lo |-> 0]
           /\ log[1].seen = <<Some(-5), Some(-4), Some(-3), Some(-2), Some(-1), Some(0)>>
           /\ log[1].calls = 6
           /\ log[1].post = 1

C3_Witness ==
    /\ live = "Count"
    /\ Len(log) = 1
    /\ log[1].op = "next_nat"
    /\ log[1].pre = -5

\* C4: a present result of next_even is divisible by 2, it is the last element
\* the call read, and every element read before it, negative or positive, is
\* odd and was discarded.
C4_NextEvenNeverOdd ==
    \A i \in Calls :
        (log[i].op = "next_even" /\ log[i].outcome = "returned" /\ log[i].ret # None)
            => /\ log[i].ret[1] % 2 = 0
               /\ log[i].ret = log[i].seen[Len(log[i].seen)]
               /\ \A k \in 1 .. Len(log[i].seen) - 1 : log[i].seen[k][1] % 2 = 1

\* next_even started on a negative odd element and returned a value.
C4_Witness ==
    \E i \in Calls :
        /\ log[i].op = "next_even"
        /\ log[i].pre < 0
        /\ log[i].pre % 2 = 1
        /\ log[i].ret # None

\* C5: on Count(1) two successive next_even calls return 2 and then 4.
C5_CountFromOneEvens ==
    (live = "Count" /\ FirstCalls(2, "next_even") /\ log[1].pre = 1)
        => /\ log[1].ret = Some(2)
           /\ log[2].ret = Some(4)

C5_Witness ==
    /\ live = "Count"
    /\ Len(log) = 2
    /\ FirstCalls(2, "next_even")
    /\ log[1].pre = 1

\* C6: on Count(4), MAX = 5, three successive bounded_next calls return
\* 4, 5, 5, the third being the base value 6 clamped.
C6_ClampScenario ==
    (live = "Count" /\ FirstCalls(3, "bounded_next") /\ log[1].pre = 4)
        => /\ MAX = 5
           /\ log[1].ret = Some(4)
           /\ log[2].ret = Some(5)
           /\ log[3].ret = Some(5)
           /\ log[3].seen = <<Some(6)>>

C6_Witness ==
    /\ live = "Count"
    /\ Len(log) = 3
    /\ FirstCalls(3, "bounded_next")
    /\ log[1].pre = 4

\* C7: bounded_next is a transform, not a filter: each call makes exactly one
\* base call, leaves the producer where that one base call leaves it, and
\* returns a present value whenever the base call did.
C7_ClampIsTransform ==
    \A i \in Calls :
        log[i].op = "bounded_next"
            => /\ log[i].calls = 1
               /\ log[i].post = Count_next(log[i].pre).st
               /\ Len(log[i].seen) <= 1
               /\ \A k \in 1 .. Len(log[i].seen) :
                      log[i].seen[k] # None
                          => log[i].outcome = "returned" /\ log[i].ret # None

\* bounded_next was called on a value above MAX.
C7_Witness ==
    \E i \in Calls :
        /\ log[i].op = "bounded_next"
        /\ log[i].pre > MAX
        /\ log[i].seen = <<Some(log[i].pre)>>
        /\ log[i].ret = Some(MAX)

\* C8: on the backing sequence [1, 2, 3] two successive next calls return 3
\* and then 2, and the sequence is then exactly [1].
C8_PopOrder ==
    (live = "Vec" /\ Len(log) = 2 /\ log[1].pre = <<1, 2, 3>>)
        => /\ log[1].ret = Some(3)
           /\ log[2].ret = Some(2)
           /\ list = <<1>>

C8_Witness ==
    /\ live = "Vec"
    /\ Len(log) = 2
    /\ log[1].pre = <<1, 2, 3>>

C10_BaseNextOneStep ==
    \A i \in Calls :
        /\ (live = "Count" /\ log[i].op = "next")
               => /\ log[i].outcome = "returned"
                  /\ log[i].ret = Some(log[i].pre)
                  /\ log[i].pre < MaxI32
                  /\ log[i].post = log[i].pre + 1
        /\ (log[i].op = "Vec.next" /\ log[i].pre # <<>>)
               => /\ log[i].ret = Some(log[i].pre[Len(log[i].pre)])
                  /\ log[i].post = SubSeq(log[i].pre, 1, Len(log[i].pre) - 1)
        /\ (live # "Constant" => constant = 0)
        /\ (live # "Count" => count = 0)
        /\ (live # "Vec" => list = <<>>)

\* C11 as stated: Count.next returns a present value for every cursor of the
\* i32 range, the maximum included, after any number of calls.
C11_CountAlwaysPresent ==
    \A i \in Calls :
        (live = "Count" /\ log[i].op = "next")
            => log[i].outcome = "returned" /\ log[i].ret # None

\* C12 as stated: no call of next, next_nat, next_even or bounded_next, on any
\* reachable producer state, ends in a panic.
C12_NoRaisedFault ==
    /\ pc # "panicked"
    /\ \A i \in Calls : log[i].outcome # "panicked"

\* C13 as stated: every call, on Count, Constant and Vec alike, comes to an
\* end: none runs forever.
C13_EveryCallCompletes ==
    /\ pc # "hung"
    /\ \A i \in Calls : log[i].outcome # "hung"

\* c + n in i32 arithmetic that wraps from i32::MAX to i32::MIN (n >= 0).
WrapAdd(c, n) ==
    IF c <= MaxI32 - n THEN c + n ELSE MinI32 + ((n - 1) - (MaxI32 - c))

\* C14, amended: the cursor changes only through base next, one step per base
\* call.  next, bounded_next and Vec.next make exactly one base call; next_nat
\* and next_even make one base call per element they read, the discarded ones
\* included, so the cursor of Count moves by the number of base calls made
\* (a base call at i32::MAX panics and leaves the cursor, or wraps it to
\* i32::MIN), Constant does not move, and Vec loses one element per present
\* result.
C14_CursorMovesByBaseCalls ==
    \A i \in Calls :
        LET e == log[i] IN
        /\ e.calls = Len(e.seen) + (IF e.outcome = "panicked" THEN 1 ELSE 0)
        /\ e.calls >= 1
        /\ e.op \in {"next", "bounded_next", "Vec.next"} => e.calls = 1
        /\ live = "Count" =>
               /\ \A k \in 1 .. Len(e.seen) : e.seen[k] = Some(WrapAdd(e.pre, k - 1))
               /\ IF e.outcome = "panicked"
                  THEN overflow_checks /\ e.post = MaxI32
                                       /\ e.post = WrapAdd(e.pre, e.calls - 1)
                  ELSE e.post = WrapAdd(e.pre, e.calls)
        /\ live = "Constant" =>
               /\ e.post = e.pre
               /\ \A k \in 1 .. Len(e.seen) : e.seen[k] = Some(e.pre)
        /\ live = "Vec" =>
               /\ Len(e.post) = Len(e.pre) - (IF e.ret # None THEN 1 ELSE 0)
               /\ e.post = SubSeq(e.pre, 1, Len(e.post))

\* A filter call that made several base calls and moved the cursor as far.
C14_Witness ==
    \E i \in Calls :
        /\ live = "Count"
        /\ log[i].op \in {"next_nat", "next_even"}
        /\ log[i].calls >= 2
        /\ log[i].post = log[i].pre + log[i].calls

\* C15 as stated: next on a cursor at i32::MAX has one defined outcome and one
\* defined successor state: what the call did is what it does in either build.
C15_OnePolicyAtMax ==
    \A i \in Calls :
        (live = "Count" /\ log[i].op = "next" /\ log[i].pre = MaxI32)
            => \A checks \in BOOLEAN :
                   /\ advance_value_in(checks, log[i].pre).outcome = log[i].outcome
                   /\ advance_value_in(checks, log[i].pre).st = log[i].post

\* C16: a next_nat call that returns a value returns the first non-negative
\* element of what the producer had left, with its numeric value unchanged by
\* `as u32`, having read exactly the elements up to and including it (every
\* earlier one negative); one that returns None does so because the base call
\* returned None after negative elements only.
C16_NextNatFirstNonNegative ==
    \A i \in Calls :
        LET e == log[i]
            n == Len(e.seen)
        IN
        (e.op = "next_nat" /\ e.outcome = "returned")
            => /\ n >= 1
               /\ e.calls = n
               /\ \A k \in 1 .. n - 1 : e.seen[k] # None /\ e.seen[k][1] < 0
               /\ live = "Count" =>
                      /\ \A k \in 1 .. n : e.seen[k] = Some(WrapAdd(e.pre, k - 1))
                      /\ e.post = WrapAdd(e.pre, n)
               /\ live = "Constant" => e.seen = <<Some(e.pre)>> /\ e.post = e.pre
               /\ IF e.ret = None
                  THEN e.seen[n] = None
                  ELSE /\ e.seen[n] # None
                       /\ e.seen[n][1] >= 0
                       /\ e.ret[1] = [hi |-> 0, lo |-> e.seen[n][1]]

\* next_nat skipped negative elements on a cursor that an earlier call had
\* moved, and returned 0.
C16_Witness ==
    \E i \in Calls :
        /\ i >= 2
        /\ live = "Count"
        /\ log[i].op = "next_nat"
        /\ log[i].calls >= 3
        /\ log[i].ret = Some([hi |-> 0, lo |-> 0])
        /\ log[i].post = 1

\* C17: a next_even call that returns a value returns the first even element
\* of what the producer had left, having read exactly the elements up to and
\* including it (every earlier one odd); one that returns None does so because
\* the base call returned None after odd elements only.
C17_NextEvenFirstEven ==
    \A i \in Calls :
        LET e == log[i]
            n == Len(e.seen)
        IN
        (e.op = "next_even" /\ e.outcome = "returned")
            => /\ n >= 1
               /\ e.calls = n
               /\ \A k \in 1 .. n - 1 : e.seen[k] # None /\ e.seen[k][1] % 2 = 1
               /\ live = "Count" =>
                      /\ \A k \in 1 .. n : e.seen[k] = Some(WrapAdd(e.pre, k - 1))
                      /\ e.post = WrapAdd(e.pre, n)
               /\ live = "Constant" => e.seen = <<Some(e.pre)>> /\ e.post = e.pre
               /\ IF e.ret = None
                  THEN e.seen[n] = None
                  ELSE /\ e.seen[n][1] % 2 = 0
                       /\ e.ret = e.seen[n]

\* next_even discarded an odd element and returned the even one after it, on
\* a cursor that other calls had moved before.
C17_Witness ==
    \E i \in Calls :
        /\ i >= 2
        /\ live = "Count"
        /\ log[i].op = "next_even"
        /\ log[i].pre % 2 = 1
        /\ log[i].calls = 2
        /\ log[i].ret = Some(log[i].pre + 1)

\* C18: bounded_next returns min(value, MAX) of the one value its base call
\* produced, and None when the base call returned None; every present result
\* is <= MAX, whatever calls came before, and a value <= MAX comes back
\* unchanged.
C18_BoundedNextIsMin ==
    \A i \in Calls :
        LET e == log[i] IN
        (e.op = "bounded_next" /\ e.outcome = "returned")
            => /\ e.seen = <<Some(e.pre)>> \/ (e.seen = <<None>> /\ e.ret = None)
               /\ e.ret # None =>
                      /\ e.ret[1] <= MAX
                      /\ e.seen[1][1] <= MAX => e.ret = e.seen[1]
                      /\ e.seen[1][1] > MAX => e.ret = Some(MAX)

\* bounded_next passed one value through and clamped another, after other calls.
C18_Witness ==
    \E i, j \in Calls :
        /\ log[i].op = "bounded_next"
        /\ log[i].pre < MAX
        /\ log[i].ret = Some(log[i].pre)
        /\ i < j - 1
        /\ log[j].op = "bounded_next"
        /\ log[j].pre > MAX + 1
        /\ log[j].ret = Some(MAX)

\* C19: the two filters are independent.  next_nat applies the sign test
\* alone: on a non-negative cursor of Count it makes one base call and returns
\* that element, odd or even.  next_even applies the parity test alone: on an
\* even cursor it makes one base call and returns that element, negative or
\* not.  Every element either reads is a result of base next, and a call of
\* one directly after the other starts where the first left the producer.
C19_FiltersIndependent ==
    \A i \in Calls :
        LET e == log[i] IN
        (live = "Count" /\ e.outcome = "returned")
            => /\ (e.op = "next_nat" /\ e.pre >= 0)
                      => e.calls = 1 /\ e.ret = Some([hi |-> 0, lo |-> e.pre])
               /\ (e.op = "next_even" /\ e.pre % 2 = 0)
                      => e.calls = 1 /\ e.ret = Some(e.pre)
               /\ e.op \in {"next_nat", "next_even"}
                      => \A k \in 1 .. Len(e.seen) :
                             e.seen[k] = Count_next(WrapAdd(e.pre, k - 1)).ret
               /\ (i > 1 /\ {e.op, log[i - 1].op} = {"next_nat", "next_even"})
                      => e.pre = log[i - 1].post

\* next_even returned a negative element, and next_nat, called right after a
\* next_even, returned an odd one.
C19_Witness ==
    /\ \E i \in Calls :
           /\ log[i].op = "next_even"
           /\ log[i].pre < 0
           /\ log[i].ret = Some(log[i].pre)
    /\ \E i \in Calls :
           /\ i > 1
           /\ log[i - 1].op = "next_even"
           /\ log[i].op = "next_nat"
           /\ log[i].pre > 0
           /\ log[i].pre % 2 = 1
           /\ log[i].ret = Some([hi |-> 0, lo |-> log[i].pre])

\* The state of the producer a log entry names.
StateOf(h) ==
    IF h = "Count" THEN count
    ELSE IF h = "Other" THEN other
    ELSE IF h = "Vec" THEN list
    ELSE constant

\* C20: nothing is shared across producers: a call on one producer, be it
\* next, next_nat, next_even or bounded_next, and whether it returns or
\* panics, leaves the state of every other producer as it was, in every
\* interleaving of calls.
C20_NothingShared ==
    [][\A h \in {"Count", "Other", "Vec", "Constant"} :
           log'[Len(log')].on # h => StateOf(h)' = StateOf(h)]_vars

\* Calls on the two Counts and on the Vec were interleaved, each moved its
\* own producer, and the two Counts stand at different cursors.
C20_Witness ==
    /\ Len(log) = 3
    /\ log[1].on = "Count"
    /\ log[2].on = "Other"
    /\ log[2].pre = log[1].pre
    /\ log[2].calls >= 2
    /\ log[3].on = "Vec"
    /\ count = log[1].post
    /\ other = log[2].post
    /\ count # other
    /\ list = <<1, 2>>

\* The number of base calls made by the first n calls of the behaviour.
RECURSIVE BaseCallsOf(_)
BaseCallsOf(n) == IF n = 0 THEN 0 ELSE log[n].calls + BaseCallsOf(n - 1)

\* The state n base next calls alone leave a producer of type T in.
RECURSIVE BaseAlone(_, _, _)
BaseAlone(T, st, n) ==
    IF n = 0 THEN st
    ELSE BaseAlone(T, (IF T = "Vec" THEN Vec_next(st) ELSE IntStream_next(T, st)).st,
                   n - 1)

\* C21: derived operations add no stored state and reach the producer through
\* base next alone: after any sequence of next, next_nat, next_even and
\* bounded_next calls the producer is in the state that as many base next
\* calls alone, as the calls made, leave it in; and a value a derived
\* operation returns is the value of the last base call it made: unchanged
\* for next_even, as a u32 for next_nat, clamped at MAX for bounded_next.
C21_OnlyThroughBase ==
    /\ Len(log) >= 1 => State = BaseAlone(live, log[1].pre, BaseCallsOf(Len(log)))
    /\ \A i \in Calls :
           LET e == log[i]
               n == Len(e.seen)
           IN
           /\ e.pre = BaseAlone(live, log[1].pre, BaseCallsOf(i - 1))
           /\ (e.op \in {"next_nat", "next_even", "bounded_next"}
                  /\ e.outcome = "returned" /\ e.ret # None)
                 => /\ n >= 1
                    /\ e.seen[n] # None
                    /\ e.op = "next_even" => e.ret = e.seen[n]
                    /\ e.op = "next_nat" => e.ret = Some([hi |-> 0, lo |-> e.seen[n][1]])
                    /\ e.op = "bounded_next"
                           => e.ret = Some(IF e.seen[n][1] <= MAX THEN e.seen[n][1] ELSE MAX)

\* A filter that made several base calls, a clamping bounded_next and a plain
\* next were mixed on one Count.
C21_Witness ==
    /\ live = "Count"
    /\ Len(log) >= 3
    /\ \E i \in Calls : log[i].op = "next_nat" /\ log[i].calls >= 2
    /\ \E i \in Calls : log[i].op = "bounded_next" /\ log[i].ret # log[i].seen[1]
    /\ \E i \in Calls : log[i].op = "next"
    /\ BaseCallsOf(Len(log)) > Len(log)

\* C24: two_ints calls next exactly twice and pairs the two results in call
\* order: on a sequence of length >= 2 it returns (Some(last), Some(second to
\* last)) and removes those two elements; on a sequence of length 1 it returns
\* (Some(x), None) and leaves the sequence empty; on the empty sequence it
\* returns (None, None) and leaves it empty.
C24_TwoIntsPair ==
    \A i \in Calls :
        LET e == log[i]
            n == Len(e.pre)
        IN
        e.op = "two_ints"
            => /\ e.outcome = "returned"
               /\ e.calls = 2
               /\ Len(e.ret) = 2
               /\ e.seen = e.ret
               /\ n >= 2 => /\ e.ret = <<Some(e.pre[n]), Some(e.pre[n - 1])>>
                            /\ e.post = SubSeq(e.pre, 1, n - 2)
               /\ n = 1 => e.ret = <<Some(e.pre[1]), None>> /\ e.post = <<>>
               /\ n = 0 => e.ret = <<None, None>> /\ e.post = <<>>

\* two_ints was called on [1, 2, 3], then on the [1] it left, then on the
\* empty sequence.
C24_Witness ==
    /\ live = "Vec"
    /\ Len(log) = 3
    /\ \A i \in 1..3 : log[i].op = "two_ints"
    /\ log[1].pre = <<1, 2, 3>>
    /\ log[1].ret = <<Some(3), Some(2)>>
    /\ log[2].pre = <<1>>
    /\ log[2].ret = <<Some(1), None>>
    /\ log[3].ret = <<None, None>>
    /\ list = <<>>

\* C25: the Vec-backed producer turns from Active to Exhausted exactly when
\* its backing data is used up: on a sequence of length n the first n calls of
\* next return present values, the elements in reverse order, call n + 1 is
\* the first to return None, and the sequence is empty from call n on.
C25_ExhaustedWhenDepleted ==
    live = "Vec" =>
        \A i \in Calls :
            LET n == Len(log[1].pre) IN
            /\ i <= n => /\ log[i].ret = Some(log[1].pre[n - i + 1])
                         /\ Len(log[i].post) = n - i
            /\ i > n => log[i].ret = None /\ log[i].pre = <<>>

\* A sequence of three different elements was read to its end and once more.
C25_Witness ==
    /\ live = "Vec"
    /\ Len(log) = 4
    /\ log[1].pre = <<1, 2, 3>>
    /\ log[3].ret = Some(1)
    /\ log[3].post = <<>>
    /\ log[4].ret = None

\* C26: implementing BoundedIntStream for Count leaves its base next as it
\* was: on Count(4), MAX = 5, three successive next calls return 4, 5, 6; a
\* next call returns its cursor value unclamped, also above MAX; and the
\* results of next and bounded_next on one cursor value differ exactly when
\* that value exceeds MAX.
C26_BaseNextUnclamped ==
    /\ (live = "Count" /\ FirstCalls(3, "next") /\ log[1].pre = 4)
           => /\ MAX = 5
              /\ log[1].ret = Some(4)
              /\ log[2].ret = Some(5)
              /\ log[3].ret = Some(6)
    /\ \A i \in Calls :
           LET e == log[i] IN
           (live = "Count" /\ e.outcome = "returned")
               => /\ e.op = "next"
                         => /\ e.ret = Some(e.pre)
                            /\ (e.ret # bounded_next(e.pre).ret) <=> (e.pre > MAX)
                  /\ e.op = "bounded_next"
                         => (e.ret # Count_next(e.pre).ret) <=> (e.pre > MAX)

\* Three next calls from cursor 4 returned 4, 5, 6, and a bounded_next after
\* them returned 5 from cursor 7.
C26_Witness ==
    /\ live = "Count"
    /\ Len(log) = 4
    /\ FirstCalls(3, "next")
    /\ log[1].pre = 4
    /\ log[3].ret = Some(6)
    /\ log[4].op = "bounded_next"
    /\ log[4].pre = 7
    /\ log[4].ret = Some(5)

\* The number a returned call yielded: next_nat yields it as a u32.
Val(e) == IF e.op = "next_nat" THEN e.ret[1].lo ELSE e.ret[1]

\* C27: on a Count whose cursor stays below i32::MAX, elements are consumed
\* once and in order under any interleaving of next, next_nat and next_even:
\* every returned value is strictly greater than every value returned
\* earlier, no element a call read (and so none a filter discarded) is read
\* or returned by a later call, and a next_nat followed by a next_even
\* returns two different elements (on Count(-5): 0, then 2).
C27_ConsumedOnceInOrder ==
    (/\ live = "Count"
     /\ \A i \in Calls : /\ log[i].op \in {"next", "next_nat", "next_even"}
                         /\ log[i].outcome = "returned"
                         /\ log[i].pre <= log[i].post
                         /\ log[i].post < MaxI32)
        => /\ \A i, j \in Calls :
                  i < j => /\ Val(log[i]) < Val(log[j])
                           /\ \A k \in 1 .. Len(log[i].seen) :
                                  /\ log[i].seen[k][1] # Val(log[j])
                                  /\ \A l \in 1 .. Len(log[j].seen) :
                                         log[i].seen[k][1] < log[j].seen[l][1]
           /\ \A i \in Calls :
                  /\ Val(log[i]) = log[i].seen[Len(log[i].seen)][1]
                  /\ \A k \in 1 .. Len(log[i].seen) - 1 :
                         log[i].seen[k][1] < Val(log[i])
                  /\ (i > 1 /\ log[i - 1].op = "next_nat" /\ log[i].op = "next_even")
                         => /\ Val(log[i - 1]) # Val(log[i])
                            /\ log[1].pre = -5 /\ i = 2
                                   => Val(log[1]) = 0 /\ Val(log[2]) = 2

\* On Count(-5) next_nat returned 0 after discarding five elements, next_even
\* then returned 2 after discarding 1, and next returned 3.
C27_Witness ==
    /\ live = "Count"
    /\ Len(log) = 3
    /\ log[1].pre = -5
    /\ log[1].op = "next_nat" /\ log[1].calls = 6 /\ Val(log[1]) = 0
    /\ log[2].op = "next_even" /\ log[2].calls = 2 /\ Val(log[2]) = 2
    /\ log[3].op = "next" /\ Val(log[3]) = 3

\* C28: on a Count with cursor s away from the overflow boundary the filters
\* make an exactly determined, bounded number of base calls: next_nat leaves
\* the cursor at max(s, 0) + 1, after |s| + 1 base calls when s < 0 and one
\* when s >= 0; next_even leaves it at s + 1 after one base call when s is
\* even and at s + 2 after two when s is odd.
C28_FilterCallCounts ==
    \A i \in Calls :
        LET e == log[i]
            s == e.pre
        IN
        (live = "Count" /\ MinI32 < s /\ s < MaxI32 - 1)
            => /\ e.op = "next_nat"
                      => /\ e.outcome = "returned"
                         /\ e.post = (IF s > 0 THEN s ELSE 0) + 1
                         /\ e.calls = IF s < 0 THEN (-s) + 1 ELSE 1
               /\ e.op = "next_even"
                      => /\ e.outcome = "returned"
                         /\ e.calls <= 2
                         /\ e.post = IF s % 2 = 0 THEN s + 1 ELSE s + 2
                         /\ e.calls = IF s % 2 = 0 THEN 1 ELSE 2

\* next_nat from -5 (six base calls), next_even from the odd cursor 1 (two)
\* and, after a next, next_even from the even cursor 4 (one).
C28_Witness ==
    /\ live = "Count"
    /\ Len(log) = 4
    /\ log[1].op = "next_nat" /\ log[1].pre = -5 /\ log[1].calls = 6 /\ log[1].post = 1
    /\ log[2].op = "next_even" /\ log[2].calls = 2 /\ log[2].post = 3
    /\ log[3].op = "next"
    /\ log[4].op = "next_even" /\ log[4].pre = 4 /\ log[4].calls = 1 /\ count = 5

\* The calls made on producer h among the first n calls, in order.
RECURSIVE CallsOn(_, _)
CallsOn(h, n) ==
    IF n = 0 THEN <<>>
    ELSE IF log[n].on = h THEN Append(CallsOn(h, n - 1), log[n])
    ELSE CallsOn(h, n - 1)

====
